---- MODULE Spec2Model ----
(***************************************************************************)
(* FD Clarity: the fixed-deposit calculator component (FdCalculator) and   *)
(* the explanation flow (explainFDResults).                                *)
(*                                                                         *)
(* The state is the component's React state (results, explanation,         *)
(* isLoading), the form's validation errors, and the invocations of        *)
(* onSubmit that are suspended at `await explainFDResults(...)`.           *)
(*                                                                         *)
(* JavaScript numbers are IEEE-754 binary64 values.  They are modelled     *)
(* bit-exactly for the finite positive range the calculator uses: a number *)
(* is m * 2^e with m an odd natural below 2^53 (kept as a sequence of      *)
(* 15-bit limbs, little-endian), and every operation rounds its exact      *)
(* result to nearest, ties to even.  Math.pow is taken as correctly        *)
(* rounded and is defined for the integral exponents n * tenure.           *)
(***************************************************************************)
EXTENDS Integers, Sequences, FiniteSets, TLC

\* ------------------------------------------------------------------------
\* Bounds of the model
\* ------------------------------------------------------------------------

\* accepted submissions followed in one behaviour
MaxSubmissions == 2

\* ------------------------------------------------------------------------
\* Natural numbers of any size: sequences of limbs, least significant first,
\* without high zero limbs (0 is <<>>)
\* ------------------------------------------------------------------------

LimbBits == 15
Base == 32768
MantBits == 53
GuardBits == 75

RECURSIVE Pow2(_)
Pow2(k) == IF k = 0 THEN 1 ELSE 2 * Pow2(k - 1)

RECURSIVE Pow10(_)
Pow10(k) == IF k = 0 THEN 1 ELSE 10 * Pow10(k - 1)

\* index of the highest non-zero limb (0 when there is none)
TopLimb(a) ==
  LET nz == {i \in 1..Len(a) : a[i] # 0}
  IN IF nz = {} THEN 0 ELSE CHOOSE i \in nz : \A j \in nz : j <= i

BNorm(a) == LET t == TopLimb(a) IN IF t = Len(a) THEN a ELSE SubSeq(a, 1, t)

RECURSIVE BFromInt(_)
BFromInt(n) == IF n = 0 THEN <<>> ELSE <<n % Base>> \o BFromInt(n \div Base)

RECURSIVE BToInt(_)
BToInt(a) == IF a = <<>> THEN 0 ELSE a[1] + Base * BToInt(Tail(a))

Limb(a, i) == IF i <= Len(a) THEN a[i] ELSE 0

\* limbs lo..hi of a + b + carry c, with the carry out
RECURSIVE BAddRange(_, _, _, _, _)
BAddRange(a, b, lo, hi, c) ==
  IF lo > hi THEN [s |-> <<>>, c |-> c]
  ELSE IF lo = hi
    THEN LET s == Limb(a, lo) + Limb(b, lo) + c
         IN [s |-> <<s % Base>>, c |-> s \div Base]
    ELSE LET mid == (lo + hi) \div 2
             l   == BAddRange(a, b, lo, mid, c)
             h   == BAddRange(a, b, mid + 1, hi, l.c)
         IN [s |-> l.s \o h.s, c |-> h.c]

BAdd(a, b) ==
  LET n == IF Len(a) > Len(b) THEN Len(a) ELSE Len(b)
      r == BAddRange(a, b, 1, n, 0)
  IN IF r.c = 0 THEN r.s ELSE Append(r.s, r.c)

\* limbs lo..hi of a - b - borrow c (a >= b), with the borrow out
RECURSIVE BSubRange(_, _, _, _, _)
BSubRange(a, b, lo, hi, c) ==
  IF lo > hi THEN [s |-> <<>>, c |-> c]
  ELSE IF lo = hi
    THEN LET d == Limb(a, lo) - Limb(b, lo) - c
         IN [s |-> <<d % Base>>, c |-> IF d < 0 THEN 1 ELSE 0]
    ELSE LET mid == (lo + hi) \div 2
             l   == BSubRange(a, b, lo, mid, c)
             h   == BSubRange(a, b, mid + 1, hi, l.c)
         IN [s |-> l.s \o h.s, c |-> h.c]

BSub(a, b) == BNorm(BSubRange(a, b, 1, Len(a), 0).s)

\* limbs lo..hi of a * k + carry c (k one limb), with the carry out
RECURSIVE BMulSmallRange(_, _, _, _, _)
BMulSmallRange(a, k, lo, hi, c) ==
  IF lo > hi THEN [s |-> <<>>, c |-> c]
  ELSE IF lo = hi
    THEN LET p == a[lo] * k + c
         IN [s |-> <<p % Base>>, c |-> p \div Base]
    ELSE LET mid == (lo + hi) \div 2
             l   == BMulSmallRange(a, k, lo, mid, c)
             h   == BMulSmallRange(a, k, mid + 1, hi, l.c)
         IN [s |-> l.s \o h.s, c |-> h.c]

BMulSmall(a, k) ==
  LET r == BMulSmallRange(a, k, 1, Len(a), 0)
  IN BNorm(IF r.c = 0 THEN r.s ELSE Append(r.s, r.c))

Zeros(k) == [i \in 1..k |-> 0]

\* a times limbs lo..hi of b, each at its place
RECURSIVE BMulRange(_, _, _, _)
BMulRange(a, b, lo, hi) ==
  IF lo = hi
    THEN LET p == BMulSmall(a, b[lo]) IN IF p = <<>> THEN p ELSE Zeros(lo - 1) \o p
    ELSE LET mid == (lo + hi) \div 2
         IN BAdd(BMulRange(a, b, lo, mid), BMulRange(a, b, mid + 1, hi))

BMul(a, b) == IF a = <<>> \/ b = <<>> THEN <<>> ELSE BMulRange(a, b, 1, Len(b))

RECURSIVE BPow(_, _)
BPow(a, k) ==
  IF k = 0 THEN <<1>>
  ELSE LET h == BPow(a, k \div 2)
           s == BMul(h, h)
       IN IF k % 2 = 1 THEN BMul(s, a) ELSE s

BCmp(a, b) ==
  IF Len(a) < Len(b) THEN -1
  ELSE IF Len(a) > Len(b) THEN 1
  ELSE LET df == {i \in 1..Len(a) : a[i] # b[i]}
       IN IF df = {} THEN 0
          ELSE LET t == CHOOSE i \in df : \A j \in df : j <= i
               IN IF a[t] < b[t] THEN -1 ELSE 1

RECURSIVE IntBits(_)
IntBits(n) == IF n = 0 THEN 0 ELSE 1 + IntBits(n \div 2)

BitLen(a) == IF a = <<>> THEN 0 ELSE LimbBits * (Len(a) - 1) + IntBits(a[Len(a)])

BShl(a, n) ==
  IF a = <<>> THEN a
  ELSE Zeros(n \div LimbBits) \o BMulSmall(a, Pow2(n % LimbBits))

\* quotient limbs lo..hi and remainder of a by the one-limb divisor d, with the
\* remainder r carried in from the limbs above hi
RECURSIVE BDivSmallRange(_, _, _, _, _)
BDivSmallRange(a, d, lo, hi, r) ==
  IF lo > hi THEN [q |-> <<>>, r |-> r]
  ELSE IF lo = hi
    THEN LET cur == r * Base + a[lo]
         IN [q |-> <<cur \div d>>, r |-> cur % d]
    ELSE LET mid == (lo + hi) \div 2
             h   == BDivSmallRange(a, d, mid + 1, hi, r)
             l   == BDivSmallRange(a, d, lo, mid, h.r)
         IN [q |-> l.q \o h.q, r |-> l.r]

BDivSmall(a, d) ==
  LET x == BDivSmallRange(a, d, 1, Len(a), 0) IN [q |-> BNorm(x.q), r |-> x.r]

BShr(a, n) ==
  LET k == n \div LimbBits
  IN IF k >= Len(a) THEN <<>>
     ELSE BDivSmall(SubSeq(a, k + 1, Len(a)), Pow2(n % LimbBits)).q

BBit(a, i) == (Limb(a, i \div LimbBits + 1) \div Pow2(i % LimbBits)) % 2

\* whether the low n bits of a are all zero
BLowZero(a, n) ==
  /\ \A i \in 1..(n \div LimbBits) : Limb(a, i) = 0
  /\ Limb(a, n \div LimbBits + 1) % Pow2(n % LimbBits) = 0

\* the position of the lowest set bit of a # 0
TrailingZeros(a) ==
  LET k == CHOOSE i \in 1..Len(a) : a[i] # 0 /\ \A j \in 1..(i - 1) : a[j] = 0
      b == CHOOSE i \in 0..(LimbBits - 1) :
             (a[k] \div Pow2(i)) % 2 = 1 /\ a[k] % Pow2(i) = 0
  IN LimbBits * (k - 1) + b

\* ------------------------------------------------------------------------
\* JavaScript numbers (binary64), finite and not negative: [m, e] is m * 2^e
\* with m odd, or Zero
\* ------------------------------------------------------------------------

Zero == [m |-> <<>>, e |-> 0]

Canon(N, e) ==
  IF N = <<>> THEN Zero
  ELSE LET tz == TrailingZeros(N) IN [m |-> BShr(N, tz), e |-> e + tz]

\* the binary64 value nearest to N * 2^e (plus, with sticky, a fraction of
\* 2^e below one unit), ties to even
RoundNearestEven(N, e, sticky) ==
  LET L == BitLen(N)
  IN IF L <= MantBits THEN Canon(N, e)
     ELSE LET s    == L - MantBits
              q    == BShr(N, s)
              half == BBit(N, s - 1) = 1
              low  == sticky \/ ~BLowZero(N, s - 1)
              up   == half /\ (low \/ BBit(q, 0) = 1)
          IN Canon(IF up THEN BAdd(q, <<1>>) ELSE q, e + s)

FromInt(n) == Canon(BFromInt(n), 0)

\* Number("mant / 10^scale"): the decimal text of an input field to a number
FromDecimal(mant, scale) ==
  IF mant = 0 THEN Zero
  ELSE LET d == BDivSmall(BShl(BFromInt(mant), GuardBits), Pow10(scale))
       IN RoundNearestEven(d.q, -GuardBits, d.r # 0)

Align(x, y) ==
  LET lo == IF x.e < y.e THEN x.e ELSE y.e
  IN [a |-> BShl(x.m, x.e - lo), b |-> BShl(y.m, y.e - lo), e |-> lo]

\* x * y
FMul(x, y) == RoundNearestEven(BMul(x.m, y.m), x.e + y.e, FALSE)

\* x + y
FAdd(x, y) == LET t == Align(x, y) IN RoundNearestEven(BAdd(t.a, t.b), t.e, FALSE)

\* x - y, for x >= y
FSub(x, y) == LET t == Align(x, y) IN RoundNearestEven(BSub(t.a, t.b), t.e, FALSE)

\* -1, 0, 1 as x is below, equal to, above y
FCmp(x, y) == LET t == Align(x, y) IN BCmp(t.a, t.b)

\* x / y, for a divisor whose odd part is one limb (100 and the periods per year)
FDiv(x, y) ==
  IF x.m = <<>> THEN Zero
  ELSE LET d == BDivSmall(BShl(x.m, GuardBits), y.m[1])
       IN RoundNearestEven(d.q, x.e - GuardBits - y.e, d.r # 0)

\* the integer a number is, for a small integral number
ToInt(x) == BToInt(x.m) * Pow2(x.e)

\* Math.pow(x, y), for y a small natural number
MathPow(x, y) ==
  LET k == ToInt(y) IN RoundNearestEven(BPow(x.m, k), x.e * k, FALSE)

\* ------------------------------------------------------------------------
\* JavaScript values held in the component's state and returned by the flow
\* ------------------------------------------------------------------------

Null == [type |-> "null"]
Undefined == [type |-> "undefined"]
Str(s) == [type |-> "string", value |-> s]

\* the truthiness JSX's `&&`, `||` and `!` test
Truthy(v) == v.type = "object" \/ (v.type = "string" /\ v.value # "")

\* a Results object
Results(m, t) == [type |-> "object", maturityAmount |-> m, totalInterest |-> t]

FallbackText == "Could not generate an explanation at this time. Please try again later."

\* ------------------------------------------------------------------------
\* The form: its schema, its default values and the inputs followed
\* ------------------------------------------------------------------------

FormFrequencies == {"Annually", "Semi-annually", "Quarterly", "Monthly"}

\* the text of a number field, <<mant, scale>> standing for mant / 10^scale,
\* coerced by z.coerce.number()
Coerce(dec) == FromDecimal(dec[1], dec[2])

\* formSchema with principal left unchecked
formSchemaWithoutPrincipal(raw) ==
  {f \in {"tenure"} : FCmp(Coerce(raw.tenure), FromInt(1)) < 0}
  \cup {f \in {"interestRate"} :
          \/ FCmp(Coerce(raw.interestRate), FromDecimal(1, 1)) < 0
          \/ FCmp(Coerce(raw.interestRate), FromInt(100)) > 0}
  \cup {f \in {"compoundingFrequency"} : raw.compoundingFrequency \notin FormFrequencies}

\* the fields formSchema refuses in the raw form values
formSchema(raw) ==
  {f \in {"principal"} : FCmp(Coerce(raw.principal), FromInt(1)) < 0}
  \cup {f \in {"tenure"} : FCmp(Coerce(raw.tenure), FromInt(1)) < 0}
  \cup {f \in {"interestRate"} :
          \/ FCmp(Coerce(raw.interestRate), FromDecimal(1, 1)) < 0
          \/ FCmp(Coerce(raw.interestRate), FromInt(100)) > 0}
  \cup {f \in {"compoundingFrequency"} : raw.compoundingFrequency \notin FormFrequencies}

\* the FormValues the resolver hands to onSubmit
FormValues(raw) ==
  [principal            |-> Coerce(raw.principal),
   tenure               |-> Coerce(raw.tenure),
   interestRate         |-> Coerce(raw.interestRate),
   compoundingFrequency |-> raw.compoundingFrequency]

defaultValues ==
  [principal |-> <<100000, 0>>, tenure |-> <<5, 0>>, interestRate |-> <<65, 1>>,
   compoundingFrequency |-> "Annually"]

\* what the user may have typed when pressing the button: the default values
\* with a tenure of 1 year, or these with one field changed (the default values
\* among them)
PrincipalInputs == {<<0, 0>>, <<5, 1>>, <<1, 0>>, <<100000, 0>>}
TenureInputs == {<<0, 0>>, <<5, 1>>, <<1, 0>>, <<5, 0>>}
RateInputs == {<<0, 0>>, <<5, 2>>, <<1, 1>>, <<65, 1>>, <<100, 0>>, <<1001, 1>>, <<101, 0>>}

OneYear == [defaultValues EXCEPT !.tenure = <<1, 0>>]

FormInputs ==
  {raw \in [principal : PrincipalInputs, tenure : TenureInputs,
            interestRate : RateInputs, compoundingFrequency : FormFrequencies] :
     Cardinality({f \in DOMAIN raw : raw[f] # OneYear[f]}) <= 1}

\* zodResolver(formSchema) on the raw form values
resolver(raw) == [errors |-> formSchema(raw), values |-> FormValues(raw)]

\* the resolver over the inputs followed, evaluated once
resolved == {[raw |-> raw, result |-> resolver(raw)] : raw \in FormInputs}

resolve(raw) == (CHOOSE t \in resolved : t.raw = raw).result

\* ------------------------------------------------------------------------
\* The calculation of onSubmit
\* ------------------------------------------------------------------------

periodsTable ==
  ("Annually" :> 1) @@ ("Semi-annually" :> 2) @@ ("Quarterly" :> 4) @@ ("Monthly" :> 12)

\* the lookup always falling to its default
periodsAlwaysDefault(compoundingFrequency) == 1

\* { ... }[compoundingFrequency] || 1
periodsPerYear(compoundingFrequency) ==
  IF compoundingFrequency \in DOMAIN periodsTable /\ periodsTable[compoundingFrequency] # 0
    THEN periodsTable[compoundingFrequency]
    ELSE 1

maturityOf(data) ==
  LET rate == FDiv(data.interestRate, FromInt(100))
      n    == FromInt(periodsPerYear(data.compoundingFrequency))
  IN FMul(data.principal, MathPow(FAdd(FromInt(1), FDiv(rate, n)), FMul(n, data.tenure)))

\* the interest with the subtraction left out
interestWithoutSubtraction(maturityAmount, principal) == maturityAmount

interestOf(maturityAmount, principal) == FSub(maturityAmount, principal)

\* the two values onSubmit computes from the form values
computeResults(data) ==
  LET maturityAmount == maturityOf(data)
  IN [maturityAmount |-> maturityAmount,
      totalInterest  |-> interestOf(maturityAmount, data.principal)]

\* computeResults over the form values the schema accepts, evaluated once
computed ==
  {[data |-> r.values, values |-> computeResults(r.values)] :
     r \in {t.result : t \in {u \in resolved : u.result.errors = {}}}}

calculate(data) == (CHOOSE t \in computed : t.data = data).values

\* the argument with totalInterest left out
requestWithoutInterest(data, maturityAmount, totalInterest) ==
  [principal            |-> data.principal,
   tenure               |-> data.tenure,
   interestRate         |-> data.interestRate,
   compoundingFrequency |-> data.compoundingFrequency,
   maturityAmount       |-> maturityAmount]

\* the argument of explainFDResults
requestOf(data, maturityAmount, totalInterest) ==
  [principal            |-> data.principal,
   tenure               |-> data.tenure,
   interestRate         |-> data.interestRate,
   compoundingFrequency |-> data.compoundingFrequency,
   maturityAmount       |-> maturityAmount,
   totalInterest        |-> totalInterest]

\* ------------------------------------------------------------------------
\* The explanation flow
\* ------------------------------------------------------------------------

FlowFrequencies == {"Annually", "Semi-annually", "Quarterly", "Monthly"}

IsNumber(x) == DOMAIN x = {"m", "e"}

ExplainFDResultsInputSchema(input) ==
  /\ {"principal", "tenure", "interestRate", "compoundingFrequency",
      "maturityAmount", "totalInterest"} \subseteq DOMAIN input
  /\ \A f \in {"principal", "tenure", "interestRate", "maturityAmount", "totalInterest"} :
       IsNumber(input[f])
  /\ input.compoundingFrequency \in FlowFrequencies

\* a flow that declares no output schema
AnyOutput(output) == TRUE

ExplainFDResultsOutputSchema(output) ==
  /\ output.type = "object"
  /\ "explanation" \in DOMAIN output
  /\ output.explanation.type = "string"

Explained(s) == [type |-> "object", explanation |-> Str(s)]

\* what the call of the prompt may come to: an output (well-formed with some
\* text or with none, null, or an object without the field), an error thrown,
\* or no answer at all
PromptOutcomes ==
  {[kind |-> "output", output |-> Explained("Your deposit grows with compound interest.")],
   [kind |-> "output", output |-> Explained("")],
   [kind |-> "output", output |-> Null],
   [kind |-> "output", output |-> [type |-> "object", text |-> Str("no explanation field")]],
   [kind |-> "throw", output |-> Undefined],
   [kind |-> "silent", output |-> Undefined]}

NoOutcome == [kind |-> "none", output |-> Undefined]

\* how the promise of explainFDResults(request) settles when the prompt comes
\* to outcome
flowStatus(request, outcome) ==
  IF ~ExplainFDResultsInputSchema(request) THEN "rejected"
  ELSE IF outcome.kind = "silent" THEN "hung"
  ELSE IF outcome.kind = "throw" THEN "rejected"
  ELSE IF ExplainFDResultsOutputSchema(outcome.output) THEN "fulfilled"
  ELSE "rejected"

\* ------------------------------------------------------------------------
\* State
\* ------------------------------------------------------------------------

VARIABLES
  results,      \* useState<Results | null>
  explanation,  \* useState<string | null>
  isLoading,    \* useState(false)
  errors,       \* the fields the form shows a validation message for
  calls,        \* the invocations of onSubmit suspended at the await
  submitted,    \* the number of invocations of onSubmit so far
  sent,         \* the number of calls of explainFDResults so far
  resultsBy,    \* the invocation whose setResults gave results its value
  settled,      \* the invocation that finished last, until the next one starts
  remembered    \* the values stored by one earlier invocation (HistorySpec)

vars == <<results, explanation, isLoading, errors, calls, submitted, sent,
          resultsBy, settled, remembered>>

NoCall == [id |-> 0]
Nothing == [id |-> 0]

Init ==
  /\ results = Null
  /\ explanation = Null
  /\ isLoading = FALSE
  /\ errors = {}
  /\ calls = {}
  /\ submitted = 0
  /\ sent = 0
  /\ resultsBy = NoCall
  /\ settled = NoCall
  /\ remembered = Nothing

\* ------------------------------------------------------------------------
\* The view
\* ------------------------------------------------------------------------

\* a submit button that is never disabled
neverDisabled == FALSE

\* <Button type="submit" disabled={isLoading}>
submitDisabled == isLoading

footerShown == isLoading \/ Truthy(results) \/ Truthy(explanation)

resultsShown == footerShown /\ Truthy(results) /\ ~isLoading

explanationSectionShown == footerShown /\ (isLoading \/ Truthy(explanation))

skeletonShown == explanationSectionShown /\ (isLoading /\ ~Truthy(explanation))

explanationTextShown == explanationSectionShown /\ ~(isLoading /\ ~Truthy(explanation))

\* ------------------------------------------------------------------------
\* Operations
\* ------------------------------------------------------------------------

\* onSubmit keeping a running total of the interest over the submissions
onSubmitRunningTotal(data) ==
  /\ submitted < MaxSubmissions
  /\ \E c \in {calculate(data)} :
       \E total \in {IF results.type = "object"
                        THEN FAdd(c.totalInterest, results.totalInterest)
                        ELSE c.totalInterest} :
         \E call \in {[id             |-> submitted + 1,
                        data           |-> data,
                        maturityAmount |-> c.maturityAmount,
                        totalInterest  |-> total,
                        request        |-> requestOf(data, c.maturityAmount, total),
                        status         |-> "awaiting",
                        outcome        |-> NoOutcome]} :
           /\ isLoading' = TRUE
           /\ results' = Results(c.maturityAmount, total)
           /\ explanation' = Null
           /\ calls' = calls \cup {call}
           /\ submitted' = submitted + 1
           /\ sent' = sent + 1
           /\ resultsBy' = call
           /\ settled' = NoCall
  /\ errors' = {}
  /\ UNCHANGED remembered

\* onSubmit up to the await: the state is reset, the results are computed and
\* stored, and explainFDResults is called
onSubmit(data) ==
  /\ submitted < MaxSubmissions
  /\ \E c \in {calculate(data)} :
       \E call \in {[id             |-> submitted + 1,
                      data           |-> data,
                      maturityAmount |-> c.maturityAmount,
                      totalInterest  |-> c.totalInterest,
                      request        |-> requestOf(data, c.maturityAmount, c.totalInterest),
                      status         |-> "awaiting",
                      outcome        |-> NoOutcome]} :
         /\ isLoading' = TRUE
         /\ results' = Results(c.maturityAmount, c.totalInterest)
         /\ explanation' = Null
         /\ calls' = calls \cup {call}
         /\ submitted' = submitted + 1
         /\ sent' = sent + 1
         /\ resultsBy' = call
         /\ settled' = NoCall
  /\ errors' = {}
  /\ UNCHANGED remembered

\* handleSubmit reachable while a submission is loading
handleSubmitWhileLoading(raw) ==
  \E validation \in {resolve(raw)} :
    IF validation.errors = {}
      THEN onSubmit(validation.values)
      ELSE /\ errors' = validation.errors
           /\ UNCHANGED <<results, explanation, isLoading, calls, submitted, sent,
                          resultsBy, settled, remembered>>

\* form.handleSubmit(onSubmit), fired by the submit button: the resolver
\* validates the form values and onSubmit runs when they are valid
handleSubmit(raw) ==
  /\ ~submitDisabled
  /\ \E validation \in {resolve(raw)} :
       IF validation.errors = {}
         THEN onSubmit(validation.values)
         ELSE /\ errors' = validation.errors
              /\ UNCHANGED <<results, explanation, isLoading, calls, submitted, sent,
                             resultsBy, settled, remembered>>

\* the flow runs for a suspended call: the prompt comes to outcome and the
\* promise settles (or never does)
explainFDResultsFlow(c, outcome) ==
  /\ c \in calls
  /\ c.status = "awaiting"
  /\ calls' = (calls \ {c})
                \cup {[c EXCEPT !.status = flowStatus(c.request, outcome),
                                !.outcome = outcome]}
  /\ UNCHANGED <<results, explanation, isLoading, errors, submitted, sent,
                 resultsBy, settled, remembered>>

\* aiResponse.explanation, a TypeError when aiResponse is null or undefined
explanationOf(aiResponse) ==
  IF aiResponse.type \in {"null", "undefined"} THEN [thrown |-> TRUE, value |-> Undefined]
  ELSE IF "explanation" \in DOMAIN aiResponse
    THEN [thrown |-> FALSE, value |-> aiResponse.explanation]
    ELSE [thrown |-> FALSE, value |-> Undefined]

\* onSubmit from the await on: try / catch / finally
onSubmitResume(c) ==
  /\ c \in calls
  /\ c.status \in {"fulfilled", "rejected"}
  /\ explanation' =
       IF c.status = "fulfilled" /\ ~explanationOf(c.outcome.output).thrown
         THEN explanationOf(c.outcome.output).value
         ELSE Str(FallbackText)
  /\ isLoading' = FALSE
  /\ calls' = calls \ {c}
  /\ settled' = c
  /\ UNCHANGED <<results, errors, submitted, sent, resultsBy, remembered>>

\* an observer notes the values the latest invocation stored, once
Remember ==
  /\ remembered = Nothing
  /\ results.type = "object"
  /\ remembered' = [id |-> resultsBy.id, data |-> resultsBy.data, results |-> results]
  /\ UNCHANGED <<results, explanation, isLoading, errors, calls, submitted, sent,
                 resultsBy, settled>>

Next ==
  \/ \E raw \in FormInputs : handleSubmit(raw)
  \/ \E c \in calls : \E outcome \in PromptOutcomes : explainFDResultsFlow(c, outcome)
  \/ \E c \in calls : onSubmitResume(c)

Spec == Init /\ [][Next]_vars

HistoryNext == Next \/ Remember

HistorySpec == Init /\ [][HistoryNext]_vars

\* the event loop runs every continuation that is ready, and every call of the
\* flow comes to one of its outcomes (no answer at all being one of them)
LiveSpec == Spec /\ WF_vars(Next)

\* ------------------------------------------------------------------------
\* Properties
\* ------------------------------------------------------------------------

\* an output the caller can read an explanation string from
WellFormed(output) ==
  /\ output.type = "object"
  /\ "explanation" \in DOMAIN output
  /\ output.explanation.type = "string"

\* the call of explainFDResults failed: an error thrown, or a null or malformed
\* response
Failed(c) ==
  \/ c.status = "rejected"
  \/ c.outcome.kind = "throw"
  \/ (c.outcome.kind = "output" /\ ~WellFormed(c.outcome.output))

\* the text a finished call leaves: the collaborator's string, or the fallback
TextOf(c) ==
  IF Failed(c)
    THEN Str("Could not generate an explanation at this time. Please try again later.")
    ELSE c.outcome.output.explanation

\* C1: once onSubmit has finished for a submission whose explainFDResults call
\* failed (rejected, thrown, null or malformed response), explanation is the
\* fixed fallback string, isLoading is false, and results holds the values
\* computed for that submission.
C1_FailureYieldsFallback ==
  (settled # NoCall /\ Failed(settled)) =>
    /\ explanation =
         Str("Could not generate an explanation at this time. Please try again later.")
    /\ ~isLoading
    /\ results = Results(settled.maturityAmount, settled.totalInterest)
    /\ results.maturityAmount = calculate(settled.data).maturityAmount
    /\ results.totalInterest = calculate(settled.data).totalInterest

C1_Witness ==
  /\ settled # NoCall
  /\ settled.outcome.kind = "output"
  /\ ~WellFormed(settled.outcome.output)
  /\ settled.outcome.output # Null
  /\ results.type = "object"

\* the decimal text <<mant, scale>> is below k / 10^j
DecBelow(dec, k, j) == dec[1] * Pow10(j) < k * Pow10(dec[2])

\* the decimal text <<mant, scale>> is above k
DecAbove(dec, k) == dec[1] > k * Pow10(dec[2])

\* principal < 1, tenure < 1, interestRate < 0.1 or interestRate > 100
OutOfRange(raw) ==
  \/ DecBelow(raw.principal, 1, 0)
  \/ DecBelow(raw.tenure, 1, 0)
  \/ DecBelow(raw.interestRate, 1, 1)
  \/ DecAbove(raw.interestRate, 100)

\* C2: a submit attempt with principal < 1, tenure < 1, interestRate < 0.1 or
\* interestRate > 100 never runs onSubmit: nothing is computed, no request is
\* sent, and results, explanation and isLoading keep their values.
C2_InvalidInputRejected ==
  [][\A raw \in FormInputs :
       (OutOfRange(raw) /\ handleSubmit(raw)) =>
         UNCHANGED <<results, explanation, isLoading, calls, submitted, sent>>]_vars

C2_Witness ==
  /\ errors # {}
  /\ results.type = "object"
  /\ explanation.type = "string"
  /\ ~isLoading

\* C3: whenever results and explanation are both set and isLoading is false,
\* the explanation is the outcome of the request sent for the submission that
\* produced results; a late answer of an earlier submission never replaces it.
C3_NoStaleOverwrite ==
  (results.type = "object" /\ explanation # Null /\ ~isLoading) =>
    /\ settled # NoCall
    /\ settled.id = resultsBy.id
    /\ explanation = TextOf(settled)

C3_Witness ==
  /\ submitted = 2
  /\ settled # NoCall
  /\ settled.id = 2
  /\ explanation.type = "string"
  /\ ~isLoading

\* the mapping of the frequencies to the periods per year
MappedPeriods ==
  [f \in {"Annually", "Semi-annually", "Quarterly", "Monthly"} |->
     CASE f = "Annually" -> 1
       [] f = "Semi-annually" -> 2
       [] f = "Quarterly" -> 4
       [] f = "Monthly" -> 12]

\* principal * (1 + (interestRate / 100) / n) ^ (n * tenure) in JavaScript numbers
CompoundFormula(d, n) ==
  FMul(d.principal,
       MathPow(FAdd(FromInt(1), FDiv(FDiv(d.interestRate, FromInt(100)), FromInt(n))),
               FMul(FromInt(n), d.tenure)))

\* principal * (1 + interestRate / 100) in JavaScript numbers
SimpleFormula(d) ==
  FMul(d.principal, FAdd(FromInt(1), FDiv(d.interestRate, FromInt(100))))

\* the formula's value for the form values of each input in range
FormulaValues ==
  {[data   |-> FormValues(raw),
    value  |-> CompoundFormula(FormValues(raw), MappedPeriods[raw.compoundingFrequency]),
    simple |-> SimpleFormula(FormValues(raw))] :
     raw \in {r \in FormInputs : ~OutOfRange(r)}}

FormulaOf(d) == CHOOSE t \in FormulaValues : t.data = d

\* C4: the stored maturityAmount is principal * (1 + (interestRate/100)/n)^(n * tenure)
\* with n from the mapping Annually 1, Semi-annually 2, Quarterly 4, Monthly 12
\* (the default of the lookup is not taken); for Annually with tenure 1 it is
\* principal * (1 + interestRate/100), and 106500 for 100000 at 6.5.
C4_MaturityFormula ==
  results.type = "object" =>
    LET d == resultsBy.data
    IN /\ d.compoundingFrequency \in DOMAIN periodsTable
       /\ periodsTable[d.compoundingFrequency] # 0
       /\ periodsPerYear(d.compoundingFrequency) = MappedPeriods[d.compoundingFrequency]
       /\ results.maturityAmount = FormulaOf(d).value
       /\ (d.compoundingFrequency = "Annually" /\ d.tenure = FromInt(1)) =>
            results.maturityAmount = FormulaOf(d).simple
       /\ (/\ d.compoundingFrequency = "Annually"
           /\ d.tenure = FromInt(1)
           /\ d.principal = FromInt(100000)
           /\ d.interestRate = FromDecimal(65, 1)) =>
            results.maturityAmount = FromInt(106500)

C4_Witness ==
  /\ results.type = "object"
  /\ resultsBy.data = FormValues(OneYear)
  /\ results.maturityAmount = FromInt(106500)

\* C5: whenever results is set, its totalInterest is its maturityAmount minus
\* the principal of the submission that produced it.
C5_InterestIsMaturityMinusPrincipal ==
  results.type = "object" =>
    results.totalInterest = FSub(results.maturityAmount, resultsBy.data.principal)

C5_Witness ==
  /\ results.type = "object"
  /\ resultsBy.data = FormValues(defaultValues)
  /\ results.totalInterest # Zero
  /\ ~isLoading

RequestFields ==
  {"principal", "tenure", "interestRate", "compoundingFrequency",
   "maturityAmount", "totalInterest"}

\* C6: the request sent for a submission has exactly six fields: the four
\* submitted parameters and the maturityAmount and totalInterest the submission
\* stored in results, unchanged; and every frequency the form accepts is
\* accepted by the input schema of the flow.
C6_RequestCarriesSixFields ==
  /\ \A c \in calls :
       /\ DOMAIN c.request = RequestFields
       /\ \A f \in {"principal", "tenure", "interestRate", "compoundingFrequency"} :
            c.request[f] = c.data[f]
       /\ c.id = resultsBy.id
       /\ c.request.maturityAmount = results.maturityAmount
       /\ c.request.totalInterest = results.totalInterest
       /\ ExplainFDResultsInputSchema(c.request)
       /\ \A f \in FormFrequencies :
            ExplainFDResultsInputSchema([c.request EXCEPT !.compoundingFrequency = f])
  /\ \A raw \in FormInputs :
       "compoundingFrequency" \notin formSchema(raw) =>
         raw.compoundingFrequency \in FlowFrequencies

C6_Witness ==
  \E c \in calls :
    /\ c.status = "awaiting"
    /\ c.data.compoundingFrequency = "Semi-annually"
    /\ submitted = 2

\* C7: whenever a submission has completed (isLoading false again), the view
\* shows the two numeric results and one explanation text block, whatever the
\* outcome of the explanation was, the empty string included.
C7_CompletedShowsResultsAndText ==
  (settled # NoCall /\ ~isLoading) => (resultsShown /\ explanationTextShown)

\* C8: two submissions with the same principal, tenure, interestRate and
\* compoundingFrequency store the same results, whatever came before them.
C8_SameInputSameResults ==
  (remembered # Nothing /\ results.type = "object" /\ resultsBy.data = remembered.data) =>
    results = remembered.results

C8_Witness ==
  /\ remembered # Nothing
  /\ remembered.id = 1
  /\ resultsBy.id = 2
  /\ resultsBy.data = remembered.data
  /\ results.type = "object"

\* C9: every submission resolves: once isLoading is true, eventually isLoading
\* is false and explanation is the collaborator's string or the fallback; a
\* collaborator that never answers leads to the fallback too.
C9_EverySubmissionResolves ==
  isLoading ~> (~isLoading /\ explanation.type = "string")

\* C10: at most one explanation request is in flight at any time (the button
\* is disabled while one is), and each run of onSubmit sends exactly one.
C10_OneRequestInFlight ==
  /\ Cardinality(calls) <= 1
  /\ isLoading <=> calls # {}
  /\ sent = submitted
  /\ \A c \in calls : c.id = submitted

C10_Witness ==
  /\ submitted = 2
  /\ Cardinality(calls) = 1
  /\ submitDisabled

====
